---- MODULE Spec2Model ----
(***************************************************************************)
(* Model of the Pulse canvas widget (src/js/pulse.js): the waveform        *)
(* builders surround / repeatAndSurround, the widget's construction        *)
(* (constructor + onInit), draw, the sizing methods and the animation      *)
(* timer (startAnimation / pauseAnimation and the setInterval callback).   *)
(*                                                                         *)
(* Numbers.  JavaScript numbers that stay integral in the code (lengths,   *)
(* indices, the cursor, timer handles, sample values -1 / 0 / 1) are TLA+  *)
(* integers.  Numbers produced by a division or a multiplication by a      *)
(* non-integer (distribution, canvas.width, progress, the coordinates)     *)
(* are exact fractions [num, den] in lowest terms; a zero denominator      *)
(* stands for Infinity (num = 1), -Infinity (num = -1) and NaN (num = 0).  *)
(***************************************************************************)
EXTENDS Integers, Sequences, FiniteSets, TLC

(***************************************************************************)
(* Bounds of the model.                                                    *)
(***************************************************************************)
MaxInterval == 2      \* widget configurations: interval in 0 .. MaxInterval
MaxTimers == 2        \* setInterval hands out the handles 1 .. MaxTimers
MaxTicks == 12        \* the tick counter counts exactly below MaxTicks
MaxDraws == 2         \* the draw counter counts exactly below MaxDraws
MaxGraphLen == 2      \* builder calls: graphs of length 0 .. MaxGraphLen
MaxPad == 4           \* builder calls: length argument in 0 .. MaxPad
MaxRepeats == 3       \* builder calls: repeats argument in 1 .. MaxRepeats

(***************************************************************************)
(* JavaScript number arithmetic on exact fractions.                        *)
(***************************************************************************)
Abs(n) == IF n < 0 THEN -n ELSE n

Sign(n) == IF n < 0 THEN -1 ELSE IF n > 0 THEN 1 ELSE 0

RECURSIVE GCD(_, _)
GCD(a, b) == IF b = 0 THEN a ELSE GCD(b, a % b)

\* n / d
Frac(n, d) ==
  IF d = 0 THEN [num |-> Sign(n), den |-> 0]
  ELSE LET g == GCD(Abs(n), Abs(d))
           s == IF d < 0 THEN -1 ELSE 1
       IN  [num |-> (s * n) \div g, den |-> (s * d) \div g]

Num(k) == Frac(k, 1)

FracMul(a, b) == Frac(a.num * b.num, a.den * b.den)

FracSub(a, b) == Frac(a.num * b.den - b.num * a.den, a.den * b.den)

(***************************************************************************)
(* WaveformBuilder: the two static functions.                              *)
(***************************************************************************)
\* a faulty variant of Zeros: a negative length counts as its magnitude
Zeros_Abs(length) == [i \in 1 .. Abs(length) |-> 0]

\* Array.from({ length: length }).map(() => 0): no element when length <= 0
Zeros(length) == [i \in 1 .. length |-> 0]

\* a faulty variant of surround: the header is left out
surround_NoHeader(graph, length) == Zeros(length) \o graph

surround(graph, length) ==
  LET header == Zeros(length)
      trailer == header
  IN  trailer \o graph \o header

\* [].flat() of an array of arrays
RECURSIVE Flat(_)
Flat(arrays) ==
  IF arrays = <<>> THEN <<>> ELSE Head(arrays) \o Flat(Tail(arrays))

\* a faulty variant of repeatAndSurround: the outer wrap is left out
repeatAndSurround_NoWrap(graph, repeats, length) ==
  LET surroundBy == length \div 2
      surrounded == surround(graph, surroundBy)
  IN  Flat([i \in 1 .. repeats |-> surrounded])

\* a faulty variant of repeatAndSurround: length is not halved
repeatAndSurround_FullPad(graph, repeats, length) ==
  LET surroundBy == length
      surrounded == surround(graph, surroundBy)
      repeated == Flat([i \in 1 .. repeats |-> surrounded])
  IN  surround(repeated, surroundBy)

repeatAndSurround(graph, repeats, length) ==
  LET surroundBy == length \div 2
      surrounded == surround(graph, surroundBy)
      repeated == Flat([i \in 1 .. repeats |-> surrounded])
  IN  surround(repeated, surroundBy)

(***************************************************************************)
(* State.                                                                  *)
(*   config         the configuration record handed to the constructor and *)
(*                  kept in fields the code never reassigns (repeat,       *)
(*                  interval, height, trailed, animated, speed, weigth,    *)
(*                  color, trailingColor; markup is the raw markup)        *)
(*   markup         this.markup: the raw markup until onInit replaces it   *)
(*                  by the built sample sequence                           *)
(*   distribution   this.distribution                                      *)
(*   canvas         this.canvas: its width and height                      *)
(*   animationStep  this.animationStep (unassigned before onInit)          *)
(*   firstIteration this.firstIteration; the field is never assigned on a  *)
(*                  widget that is not animated, where it reads as falsy   *)
(*   animation      this.animation: the handle of the last setInterval,    *)
(*                  0 while the field is unassigned                        *)
(*   timers         the host's registered interval timers (handles)        *)
(*   nextHandle     the handle the host's next setInterval returns         *)
(*   pc             "new" before onInit has run, "ready" after             *)
(*   lastDraw       the renderer calls issued by the most recent draw      *)
(*   drawSeen       the fields the most recent draw read: distribution,    *)
(*                  canvas, animationStep and firstIteration as they were  *)
(*                  when it ran                                            *)
(*   drawCount      number of draws so far (stops counting at MaxDraws)    *)
(*   ticks          number of timer callbacks run so far (stops counting   *)
(*                  at MaxTicks)                                           *)
(*   lastAnimCall   the last of startAnimation / pauseAnimation called     *)
(*   firstDrawTimers                                                       *)
(*                  the timers that were registered when onInit issued its *)
(*                  draw                                                   *)
(*   call, result   a call of a static builder function and what it        *)
(*                  returned                                               *)
(***************************************************************************)
VARIABLES config, markup, distribution, canvas, animationStep, firstIteration,
          animation, timers, nextHandle, pc, lastDraw, drawSeen, drawCount,
          ticks, lastAnimCall, firstDrawTimers, call, result

vars == <<config, markup, distribution, canvas, animationStep, firstIteration,
          animation, timers, nextHandle, pc, lastDraw, drawSeen, drawCount,
          ticks, lastAnimCall, firstDrawTimers, call, result>>

widgetVars == <<config, markup, distribution, canvas, animationStep,
                firstIteration, animation, timers, nextHandle, pc, lastDraw,
                drawSeen, drawCount, ticks, lastAnimCall, firstDrawTimers>>

builderVars == <<call, result>>

(***************************************************************************)
(* Inputs.                                                                 *)
(***************************************************************************)
Samples == {-1, 0, 1}

Markups == {<<1>>, <<1, -1>>}

\* both branches of repeat > 1 in onInit
Repeats == {1, 2}

Widths == {200}

Heights == {80}

\* an option: <<>> is undefined, <<v>> is the value v
ConfigHeights == {<<>>, <<40>>}

Configs ==
  [markup : Markups,
   distribution : {Frac(5, 2)},
   height : ConfigHeights,
   repeat : Repeats,
   trailed : BOOLEAN,
   animated : BOOLEAN,
   speed : {50},
   weight : {5},
   color : {"rgba(0, 0, 0, 1)"},
   trailingColor : {"rgba(0, 0, 0, 0)"},
   interval : 0 .. MaxInterval]

\* the <canvas> element as the host creates it (300 x 150)
HostCanvas == [width |-> Num(300), height |-> 150]

Graphs == UNION {[1 .. n -> Samples] : n \in 0 .. MaxGraphLen}

Calls ==
  [fn : {"none"}, graph : Graphs, repeats : 1 .. MaxRepeats,
   length : 0 .. MaxPad]

NoCall == [fn |-> "none", graph |-> <<>>, repeats |-> 1, length |-> 0]

\* a counter of the model that stops counting at max
Count(n, max) == IF n < max THEN n + 1 ELSE n

(***************************************************************************)
(* draw(): the renderer calls, in the order they are issued.               *)
(***************************************************************************)
Rgba(alpha) == [rgb |-> <<0, 0, 0>>, alpha |-> alpha]

Call(op, args) == [op |-> op, args |-> args]

\* a faulty variant of GradientCalls: progress is measured against the last
\* index, so that it reaches 1
GradientCalls_ByLastIndex(mk, cv, cfg, step, first) ==
  LET progress == FracMul(Frac(1, Len(mk) - 1), Num(step))
  IN  <<Call("createLinearGradient", <<Num(0), Num(0), cv.width, Num(0)>>),
        Call("addColorStop", <<Num(0), Rgba(Num(0))>>),
        Call("addColorStop", <<progress, Rgba(Num(1))>>)>>
      \o (IF cfg.trailed /\ ~first
          THEN <<Call("addColorStop", <<progress, Rgba(Num(0))>>),
                 Call("addColorStop",
                      <<Num(1), Rgba(FracSub(Num(1), progress))>>)>>
          ELSE <<Call("addColorStop", <<progress, Rgba(Num(0))>>),
                 Call("addColorStop", <<Num(1), Rgba(Num(0))>>)>>)
      \o <<Call("strokeStyle", <<"gradient">>)>>

GradientCalls(mk, cv, cfg, step, first) ==
  LET progress == FracMul(Frac(1, Len(mk)), Num(step))
  IN  <<Call("createLinearGradient", <<Num(0), Num(0), cv.width, Num(0)>>),
        Call("addColorStop", <<Num(0), Rgba(Num(0))>>),
        Call("addColorStop", <<progress, Rgba(Num(1))>>)>>
      \o (IF cfg.trailed /\ ~first
          THEN <<Call("addColorStop", <<progress, Rgba(Num(0))>>),
                 Call("addColorStop",
                      <<Num(1), Rgba(FracSub(Num(1), progress))>>)>>
          ELSE <<Call("addColorStop", <<progress, Rgba(Num(0))>>),
                 Call("addColorStop", <<Num(1), Rgba(Num(0))>>)>>)
      \o <<Call("strokeStyle", <<"gradient">>)>>

\* a faulty variant of PathCalls: the y axis is not flipped
PathCalls_Inverted(mk, dist, cv) ==
  [i \in 1 .. Len(mk) |->
     LET x == FracMul(dist, Num(i - 1))
         y == FracSub(Frac(cv.height, 2),
                      FracMul(Frac(cv.height, 2), Num(-mk[i])))
     IN  Call(IF i - 1 = 0 THEN "moveTo" ELSE "lineTo", <<x, y>>)]

PathCalls(mk, dist, cv) ==
  [i \in 1 .. Len(mk) |->
     LET x == FracMul(dist, Num(i - 1))
         y == FracSub(Frac(cv.height, 2),
                      FracMul(Frac(cv.height, 2), Num(mk[i])))
     IN  Call(IF i - 1 = 0 THEN "moveTo" ELSE "lineTo", <<x, y>>)]

DrawCalls(mk, dist, cv, cfg, step, first) ==
  <<Call("clearRect", <<Num(0), Num(0), cv.width, Num(cv.height)>>)>>
  \o (IF cfg.animated
      THEN GradientCalls(mk, cv, cfg, step, first)
      ELSE <<Call("strokeStyle", <<cfg.color>>)>>)
  \o <<Call("lineWidth", <<Num(cfg.weight)>>), Call("beginPath", <<>>)>>
  \o PathCalls(mk, dist, cv)
  \o <<Call("stroke", <<>>)>>

(***************************************************************************)
(* Construction: the constructor has stored its arguments; onInit runs.    *)
(***************************************************************************)
\* what a draw reads of the widget
Seen(dist, cv, step, first) ==
  [distribution |-> dist, canvas |-> cv, animationStep |-> step,
   firstIteration |-> first]

WidgetInit(c) ==
  /\ config = c
  /\ markup = c.markup
  /\ distribution = c.distribution
  /\ canvas = HostCanvas
  /\ animationStep = 0
  /\ firstIteration = FALSE
  /\ animation = 0
  /\ timers = {}
  /\ nextHandle = 1
  /\ pc = "new"
  /\ lastDraw = <<>>
  /\ drawSeen = Seen(c.distribution, HostCanvas, 0, FALSE)
  /\ drawCount = 0
  /\ ticks = 0
  /\ lastAnimCall = "none"
  /\ firstDrawTimers = {}

\* the sample sequence onInit builds
Built(cfg) ==
  IF cfg.repeat > 1
  THEN repeatAndSurround(cfg.markup, cfg.repeat, cfg.interval)
  ELSE surround(cfg.markup, cfg.interval)

\* a faulty variant of InitialStep: a static widget starts at 0 too
InitialStep_Zero(cfg, len) == 0

\* the cursor onInit sets
InitialStep(cfg, len) == IF cfg.animated THEN 0 ELSE len - 1

\* a faulty variant of TimersAtFirstDraw: onInit draws before it starts the
\* animation
TimersAtFirstDraw_DrawFirst(cfg, registered, handle) == registered

\* the timers registered when onInit reaches its draw: startAnimation has
\* run by then on an animated widget
TimersAtFirstDraw(cfg, registered, handle) ==
  IF cfg.animated THEN registered \cup {handle} ELSE registered

onInit ==
  /\ pc = "new"
  /\ LET mk == Built(config)
         cv == [width |-> FracMul(Num(Len(mk) - 1), distribution),
                height |-> IF config.height # <<>>
                           THEN config.height[1] ELSE canvas.height]
         step == InitialStep(config, Len(mk))
         first == config.animated
     IN  /\ markup' = mk
         /\ canvas' = cv
         /\ animationStep' = step
         /\ firstIteration' = first
         /\ IF config.animated
            THEN /\ animation' = nextHandle
                 /\ timers' = timers \cup {nextHandle}
                 /\ nextHandle' = nextHandle + 1
                 /\ lastAnimCall' = "start"
            ELSE UNCHANGED <<animation, timers, nextHandle, lastAnimCall>>
         /\ firstDrawTimers' = TimersAtFirstDraw(config, timers, nextHandle)
         /\ lastDraw' = DrawCalls(mk, distribution, cv, config, step, first)
         /\ drawSeen' = Seen(distribution, cv, step, first)
         /\ drawCount' = Count(drawCount, MaxDraws)
  /\ pc' = "ready"
  /\ UNCHANGED <<config, distribution, ticks, builderVars>>

(***************************************************************************)
(* Public methods.                                                         *)
(***************************************************************************)
\* a faulty variant of draw: drawing moves the cursor on
draw_Advancing ==
  /\ pc = "ready"
  /\ lastDraw' = DrawCalls(markup, distribution, canvas, config,
                           animationStep, firstIteration)
  /\ drawSeen' = Seen(distribution, canvas, animationStep, firstIteration)
  /\ drawCount' = Count(drawCount, MaxDraws)
  /\ animationStep' = (animationStep + 1) % Len(markup)
  /\ UNCHANGED <<firstDrawTimers,
                 config, markup, distribution, canvas, firstIteration,
                 animation, timers, nextHandle, pc, ticks, lastAnimCall,
                 builderVars>>

draw ==
  /\ pc = "ready"
  /\ lastDraw' = DrawCalls(markup, distribution, canvas, config,
                           animationStep, firstIteration)
  /\ drawSeen' = Seen(distribution, canvas, animationStep, firstIteration)
  /\ drawCount' = Count(drawCount, MaxDraws)
  /\ UNCHANGED <<firstDrawTimers,
                 config, markup, distribution, canvas, animationStep,
                 firstIteration, animation, timers, nextHandle, pc, ticks,
                 lastAnimCall, builderVars>>

\* a faulty variant of WidthDistribution: divides by the length
WidthDistribution_ByLength(width, len) == Frac(width, len)

\* this.distribution after setWidth(width)
WidthDistribution(width, len) == Frac(width, len - 1)

setWidth(width) ==
  /\ pc = "ready"
  /\ distribution' = WidthDistribution(width, Len(markup))
  /\ canvas' = [canvas EXCEPT !.width = Num(width)]
  /\ UNCHANGED <<firstDrawTimers, drawSeen,
                 config, markup, animationStep, firstIteration, animation,
                 timers, nextHandle, pc, lastDraw, drawCount, ticks,
                 lastAnimCall, builderVars>>

setHeight(height) ==
  /\ pc = "ready"
  /\ canvas' = [canvas EXCEPT !.height = height]
  /\ UNCHANGED <<firstDrawTimers, drawSeen,
                 config, markup, distribution, animationStep, firstIteration,
                 animation, timers, nextHandle, pc, lastDraw, drawCount,
                 ticks, lastAnimCall, builderVars>>

\* setWidth(width) followed by setHeight(height)
resize(width, height) ==
  /\ pc = "ready"
  /\ distribution' = WidthDistribution(width, Len(markup))
  /\ canvas' = [[canvas EXCEPT !.width = Num(width)] EXCEPT !.height = height]
  /\ UNCHANGED <<firstDrawTimers, drawSeen,
                 config, markup, animationStep, firstIteration, animation,
                 timers, nextHandle, pc, lastDraw, drawCount, ticks,
                 lastAnimCall, builderVars>>

\* clearInterval(handle): an unknown or unassigned handle is ignored
ClearInterval(registered, handle) == registered \ {handle}

pauseAnimation ==
  /\ pc = "ready"
  /\ timers' = ClearInterval(timers, animation)
  /\ lastAnimCall' = "pause"
  /\ UNCHANGED <<firstDrawTimers, drawSeen,
                 config, markup, distribution, canvas, animationStep,
                 firstIteration, animation, nextHandle, pc, lastDraw,
                 drawCount, ticks, builderVars>>

\* a faulty variant of startAnimation: the animation restarts from the
\* beginning
startAnimation_Restart ==
  /\ pc = "ready"
  /\ nextHandle <= MaxTimers
  /\ animation' = nextHandle
  /\ timers' = timers \cup {nextHandle}
  /\ nextHandle' = nextHandle + 1
  /\ lastAnimCall' = "start"
  /\ animationStep' = 0
  /\ firstIteration' = TRUE
  /\ UNCHANGED <<firstDrawTimers, drawSeen,
                 config, markup, distribution, canvas, pc, lastDraw,
                 drawCount, ticks, builderVars>>

startAnimation ==
  /\ pc = "ready"
  /\ nextHandle <= MaxTimers
  /\ animation' = nextHandle
  /\ timers' = timers \cup {nextHandle}
  /\ nextHandle' = nextHandle + 1
  /\ lastAnimCall' = "start"
  /\ UNCHANGED <<firstDrawTimers, drawSeen,
                 config, markup, distribution, canvas, animationStep,
                 firstIteration, pc, lastDraw, drawCount, ticks, builderVars>>

(***************************************************************************)
(* The setInterval callback of a registered timer.                         *)
(***************************************************************************)
\* a faulty variant of NextStep: the cursor runs one past the end
NextStep_OffByOne(step, len) == IF step < len THEN step + 1 ELSE 0

\* a faulty variant of NextStep: the cursor wraps to 1
NextStep_WrapToOne(step, len) == IF step < len - 1 THEN step + 1 ELSE 1

\* a faulty variant of NextStep: the cursor stays on the last index
NextStep_Stay(step, len) == IF step < len - 1 THEN step + 1 ELSE step

NextStep(step, len) == IF step < len - 1 THEN step + 1 ELSE 0

\* a faulty variant of NextFirst: the flag is cleared on the wrap to 0
NextFirst_OnWrap(first, step, len) ==
  IF first /\ step = 0 THEN FALSE ELSE first

NextFirst(first, step, len) ==
  IF first /\ step = len - 1 THEN FALSE ELSE first

\* a faulty variant of tick: firstIteration is cleared before the draw
tick_DrawAfterClear(handle) ==
  /\ pc = "ready"
  /\ handle \in timers
  /\ LET step == NextStep(animationStep, Len(markup))
         first == NextFirst(firstIteration, step, Len(markup))
     IN  /\ animationStep' = step
         /\ firstIteration' = first
         /\ lastDraw' = DrawCalls(markup, distribution, canvas, config, step,
                                  first)
         /\ drawSeen' = Seen(distribution, canvas, step, first)
  /\ drawCount' = Count(drawCount, MaxDraws)
  /\ ticks' = Count(ticks, MaxTicks)
  /\ UNCHANGED <<firstDrawTimers,
                 config, markup, distribution, canvas, animation, timers,
                 nextHandle, pc, lastAnimCall, builderVars>>

tick(handle) ==
  /\ pc = "ready"
  /\ handle \in timers
  /\ LET step == NextStep(animationStep, Len(markup))
     IN  /\ animationStep' = step
         /\ lastDraw' = DrawCalls(markup, distribution, canvas, config, step,
                                  firstIteration)
         /\ drawSeen' = Seen(distribution, canvas, step, firstIteration)
         /\ firstIteration' = NextFirst(firstIteration, step, Len(markup))
  /\ drawCount' = Count(drawCount, MaxDraws)
  /\ ticks' = Count(ticks, MaxTicks)
  /\ UNCHANGED <<firstDrawTimers,
                 config, markup, distribution, canvas, animation, timers,
                 nextHandle, pc, lastAnimCall, builderVars>>

(***************************************************************************)
(* Calls of the static builder functions.                                  *)
(***************************************************************************)
callSurround ==
  /\ call.fn = "none"
  /\ call' = [call EXCEPT !.fn = "surround"]
  /\ result' = surround(call.graph, call.length)
  /\ UNCHANGED widgetVars

callRepeatAndSurround ==
  /\ call.fn = "none"
  /\ call' = [call EXCEPT !.fn = "repeatAndSurround"]
  /\ result' = repeatAndSurround(call.graph, call.repeats, call.length)
  /\ UNCHANGED widgetVars

(***************************************************************************)
(* Specifications.  Spec: a widget is constructed from a valid             *)
(* configuration (a non-empty markup, interval >= 0, repeat >= 1) and then *)
(* used through its public methods while its timers fire.  SpecBuilder:    *)
(* one call of a static builder function.  SpecRun: the widget of Spec      *)
(* that is never paused, under a host that keeps firing its timers.        *)
(***************************************************************************)
Init ==
  /\ \E c \in Configs : WidgetInit(c)
  /\ call = NoCall
  /\ result = <<>>

Next ==
  \/ onInit
  \/ draw
  \/ \E width \in Widths : setWidth(width)
  \/ \E height \in Heights : setHeight(height)
  \/ \E width \in Widths, height \in Heights : resize(width, height)
  \/ pauseAnimation
  \/ startAnimation
  \/ \E handle \in timers : tick(handle)

Spec == Init /\ [][Next]_vars

\* the widget while nobody pauses it
NextRun ==
  \/ onInit
  \/ draw
  \/ startAnimation
  \/ \E handle \in timers : tick(handle)

\* a registered timer fires: the step of tick, told by what the callback
\* does to the cursor, so that whether it is enabled depends on no draw
TimerFires ==
  /\ pc = "ready"
  /\ timers # {}
  /\ animationStep' = NextStep(animationStep, Len(markup))

\* the host fires a registered interval timer again and again
SpecRun ==
  /\ Init
  /\ [][NextRun]_vars
  /\ WF_animationStep(TimerFires)

InitBuilder ==
  /\ WidgetInit(CHOOSE c \in Configs : TRUE)
  /\ call \in Calls
  /\ result = <<>>

NextBuilder ==
  \/ callSurround
  \/ callRepeatAndSurround

SpecBuilder == InitBuilder /\ [][NextBuilder]_vars

(***************************************************************************)
(* SpecConstruct: the construction of a widget from any configuration the  *)
(* constructor accepts, an empty markup and out-of-range counts (negative  *)
(* interval, repeat <= 0) included.  An animated widget whose built        *)
(* sequence is empty is left out: its draw hands NaN (0 * 1/0) to          *)
(* addColorStop, and what happens then is the renderer's business.         *)
(***************************************************************************)
MarkupsAny == Markups \cup {<<>>}

RepeatsAny == Repeats \cup {-1, 0}

IntervalsAny == (0 .. MaxInterval) \cup {-2, -1}

ConfigsAny ==
  {c \in [markup : MarkupsAny,
          distribution : {Frac(5, 2)},
          height : ConfigHeights,
          repeat : RepeatsAny,
          trailed : BOOLEAN,
          animated : BOOLEAN,
          speed : {50},
          weight : {5},
          color : {"rgba(0, 0, 0, 1)"},
          trailingColor : {"rgba(0, 0, 0, 0)"},
          interval : IntervalsAny] :
     c.animated => Built(c) # <<>>}

InitConstruct ==
  /\ \E c \in ConfigsAny : WidgetInit(c)
  /\ call = NoCall
  /\ result = <<>>

NextConstruct == onInit

SpecConstruct == InitConstruct /\ [][NextConstruct]_vars

(***************************************************************************)
(* Properties of the builders (checked under SpecBuilder, C1 under Spec).  *)
(***************************************************************************)
RECURSIVE LeadingZeros(_)
LeadingZeros(seq) ==
  IF seq = <<>> \/ Head(seq) # 0 THEN 0 ELSE 1 + LeadingZeros(Tail(seq))

Reverse(seq) == [i \in 1 .. Len(seq) |-> seq[Len(seq) + 1 - i]]

TrailingZeros(seq) == LeadingZeros(Reverse(seq))

\* seq is pad zeros, then copies of s each followed by pad zeros
IsPaddedCopies(seq, s, copies, pad) ==
  /\ Len(seq) = copies * Len(s) + (copies + 1) * pad
  /\ \A i \in 1 .. Len(seq) :
       LET j == i - pad
           k == IF j >= 1 THEN ((j - 1) % (Len(s) + pad)) + 1 ELSE 0
       IN  seq[i] = IF k >= 1 /\ k <= Len(s) THEN s[k] ELSE 0

\* C1 (as claimed): after construction the built sequence has length
\* markup.length + 2*interval when repeat = 1 and
\* 2*interval + repeat*markup.length + interval*(repeat-1) when repeat > 1,
\* and it is not empty.
C1_BuiltLength ==
  pc = "ready" =>
    LET len == Len(config.markup)
        n == config.interval
        r == config.repeat
    IN  /\ Len(markup) = IF r = 1 THEN len + 2 * n
                         ELSE 2 * n + r * len + n * (r - 1)
        /\ Len(markup) > 0

\* C2: surround(s, n) of a non-empty s has length len(s) + 2n, holds s at
\* the positions n .. n+len(s)-1 (counted from 0) in the same order, and
\* holds 0 everywhere else.
C2_SurroundShape ==
  (call.fn = "surround" /\ call.graph # <<>>) =>
    LET s == call.graph
        n == call.length
    IN  /\ Len(result) = Len(s) + 2 * n
        /\ \A i \in 1 .. Len(result) :
             result[i] = IF i > n /\ i <= n + Len(s) THEN s[i - n] ELSE 0

C2_Witness ==
  /\ call.fn = "surround"
  /\ call.graph = <<1, -1>>
  /\ call.length = 2
  /\ result = <<0, 0, 1, -1, 0, 0>>

\* the case C3 is about: at least two copies of an s that starts and ends
\* with a non-zero sample
C3_Case ==
  /\ call.fn = "repeatAndSurround"
  /\ call.repeats >= 2
  /\ call.graph # <<>>
  /\ Head(call.graph) # 0
  /\ call.graph[Len(call.graph)] # 0

\* C3 (as claimed): in repeatAndSurround(s, r, n) with r >= 2 the zeros
\* before the first copy of s, after the last copy and between consecutive
\* copies number exactly half = floor(n/2).
C3_PaddingIsHalf ==
  C3_Case =>
    LET half == call.length \div 2
    IN  /\ LeadingZeros(result) = half
        /\ TrailingZeros(result) = half
        /\ IsPaddedCopies(result, call.graph, call.repeats, half)

\* C3 (amended): in repeatAndSurround(s, r, n) with r >= 2 the zeros before
\* the first copy of s, after the last copy and between consecutive copies
\* number exactly 2*half, half = floor(n/2).
C3_PaddingIsTwiceHalf ==
  C3_Case =>
    LET half == call.length \div 2
    IN  /\ LeadingZeros(result) = 2 * half
        /\ TrailingZeros(result) = 2 * half
        /\ IsPaddedCopies(result, call.graph, call.repeats, 2 * half)

C3_Witness ==
  /\ C3_Case
  /\ call.graph = <<1, -1>>
  /\ call.repeats = 2
  /\ call.length = 3
  /\ result = <<0, 0, 1, -1, 0, 0, 1, -1, 0, 0>>

\* C4: repeatAndSurround(s, r, n) is half zeros, then r units, then half
\* zeros, where a unit is half zeros, s, half zeros and half = floor(n/2);
\* for r = 1 it is surround(surround(s, half), half); its length is
\* r*(len(s) + 2*half) + 2*half; repeatAndSurround([1,-1], 3, 4) has
\* length 22.
C4_RepeatAndSurroundShape ==
  call.fn = "repeatAndSurround" =>
    LET s == call.graph
        r == call.repeats
        half == call.length \div 2
        unit == Len(s) + 2 * half
    IN  /\ Len(result) = r * unit + 2 * half
        /\ \A i \in 1 .. Len(result) :
             LET j == i - half
                 k == IF j >= 1 /\ j <= r * unit
                      THEN ((j - 1) % unit) + 1 ELSE 0
             IN  result[i] = IF k > half /\ k <= half + Len(s)
                             THEN s[k - half] ELSE 0
        /\ r = 1 => result = surround(surround(s, half), half)
        /\ (s = <<1, -1>> /\ r = 3 /\ call.length = 4) => Len(result) = 22

C4_Witness ==
  /\ call.fn = "repeatAndSurround"
  /\ call.graph = <<1, -1>>
  /\ call.repeats = 3
  /\ call.length = 4
  /\ Len(result) = 22
  /\ result = <<0, 0, 0, 0, 1, -1, 0, 0, 0, 0, 1, -1, 0, 0, 0, 0, 1, -1,
                0, 0, 0, 0>>

(***************************************************************************)
(* Properties of the widget (checked under Spec).                          *)
(***************************************************************************)
L == Len(markup)

\* a step of the timer callback
TickStep == \E handle \in timers : tick(handle)

\* C5: once a widget is constructed (from a non-empty markup),
\* 0 <= animationStep <= L-1 in every state, whatever ticks and public calls
\* have run; a tick moves the cursor from k to k+1 when k < L-1 and from L-1
\* to 0.
C5_CursorInRange ==
  /\ [](pc = "ready" => (0 <= animationStep /\ animationStep <= L - 1))
  /\ [][TickStep =>
          animationStep' = IF animationStep < L - 1
                           THEN animationStep + 1 ELSE 0]_vars

C5_Witness ==
  /\ pc = "ready"
  /\ L >= 2
  /\ ticks = L + 1
  /\ animationStep = 1
  /\ Cardinality(timers) = 2
  /\ canvas.width = Num(200)

\* C6: on an animated widget the cursor is 0 at construction, is not 0
\* after any of the ticks 1 .. L-1, and is 0 again after exactly L ticks.
C6_FullCycle ==
  (pc = "ready" /\ config.animated /\ ticks < MaxTicks /\ ticks <= L) =>
    (animationStep = 0 <=> ticks \in {0, L})

C6_Witness ==
  /\ pc = "ready"
  /\ config.animated
  /\ L >= 2
  /\ ticks < MaxTicks
  /\ ticks = L
  /\ animationStep = 0

\* C7: on an animated widget with L >= 2, firstIteration is true from
\* construction until the tick on which the cursor first reaches L-1 (the
\* tick number L-1), false from that tick on, and no step sets it back to
\* true.
C7_FirstIterationOnce ==
  /\ []((pc = "ready" /\ config.animated /\ L >= 2 /\ ticks < MaxTicks) =>
          /\ firstIteration <=> ticks < L - 1
          /\ ticks <= L - 1 => animationStep = ticks)
  /\ [][(pc = "ready" /\ config.animated /\ L >= 2 /\ ~firstIteration) =>
          ~firstIteration']_vars

C7_Witness ==
  /\ pc = "ready"
  /\ config.animated
  /\ L >= 2
  /\ ticks = L - 1
  /\ animationStep = L - 1
  /\ ~firstIteration

\* C8 (as claimed): when the last of the startAnimation / pauseAnimation
\* calls was pauseAnimation, no timer of the widget is registered (so no
\* tick can run).
C8_PauseLeavesIdle ==
  (pc = "ready" /\ lastAnimCall = "pause") => timers = {}

\* the renderer calls of a draw that name operation op
CallsOf(calls, op) == {i \in 1 .. Len(calls) : calls[i].op = op}

\* C9: the step that constructs a widget with animated = false leaves
\* animationStep = L-1, registers no timer, and performs exactly one draw,
\* whose stroke style is the configured color and which creates no gradient.
C9_StaticConstruction ==
  [][(pc = "new" /\ pc' = "ready" /\ ~config.animated) =>
       /\ animationStep' = Len(markup') - 1
       /\ timers' = {} /\ nextHandle' = 1 /\ animation' = 0
       /\ drawCount = 0 /\ drawCount' = 1
       /\ \E i \in 1 .. Len(lastDraw') :
            lastDraw'[i] = Call("strokeStyle", <<config.color>>)
       /\ Cardinality(CallsOf(lastDraw', "strokeStyle")) = 1
       /\ CallsOf(lastDraw', "createLinearGradient") = {}]_vars

C9_Witness ==
  /\ pc = "ready"
  /\ ~config.animated
  /\ animationStep = L - 1
  /\ L >= 2
  /\ timers = {}
  /\ drawCount = 1
  /\ ticks = 0
  /\ CallsOf(lastDraw, "createLinearGradient") = {}

\* C10: resize(w, h) sets the canvas width to w, its height to h and
\* distribution to w / (L-1); it leaves the sample sequence, animationStep,
\* firstIteration and the timers as they are and performs no draw.
C10_ResizeFrame ==
  [][\A width \in Widths, height \in Heights :
       resize(width, height) =>
         /\ canvas'.width = Num(width)
         /\ canvas'.height = height
         /\ distribution' = Frac(width, L - 1)
         /\ UNCHANGED <<markup, animationStep, firstIteration, animation,
                        timers, nextHandle, lastDraw, drawCount>>]_vars

C10_Witness ==
  /\ pc = "ready"
  /\ L = 6
  /\ canvas = [width |-> Num(200), height |-> 80]
  /\ distribution = Frac(40, 1)
  /\ drawCount = 1
  /\ config.height = <<40>>

(***************************************************************************)
(* Reading a draw's renderer calls.                                        *)
(***************************************************************************)
IsColorStop(c) == c.op = "addColorStop"

\* the arguments <<offset, color>> of a draw's addColorStop calls, in order
StopsOf(calls) ==
  LET stops == SelectSeq(calls, IsColorStop)
  IN  [i \in 1 .. Len(stops) |-> stops[i].args]

\* the construction step of an animated widget
AnimatedConstruction == pc = "new" /\ pc' = "ready" /\ config.animated

\* C11: constructing an animated widget registers the timer and then
\* performs exactly one draw, before any tick has run; that draw sees
\* animationStep = 0 (progress 0) and firstIteration = true (no trail).  The
\* first tick's draw is a further draw and sees animationStep = 1 (progress
\* 1/L) when L >= 2.
C11_DrawBeforeFirstTick ==
  /\ [][AnimatedConstruction =>
          /\ timers' = {1}
          /\ firstDrawTimers' = {1}
          /\ drawCount = 0 /\ drawCount' = 1
          /\ ticks' = 0
          /\ animationStep' = 0 /\ firstIteration'
          /\ StopsOf(lastDraw')[2] = <<Num(0), Rgba(Num(1))>>
          /\ StopsOf(lastDraw')[4] = <<Num(1), Rgba(Num(0))>>]_vars
  /\ [][(TickStep /\ config.animated /\ ticks = 0 /\ L >= 2) =>
          /\ ticks' = 1
          /\ drawCount < MaxDraws => drawCount' = drawCount + 1
          /\ animationStep' = 1
          /\ StopsOf(lastDraw')[2] = <<Frac(1, L), Rgba(Num(1))>>]_vars

C11_Witness ==
  /\ pc = "ready"
  /\ config.animated
  /\ L >= 2
  /\ ticks = 1
  /\ drawCount = 2
  /\ firstDrawTimers = {1}
  /\ animationStep = 1
  /\ StopsOf(lastDraw)[2] = <<Frac(1, L), Rgba(Num(1))>>

\* a draw has a trail: its last color stop, at offset 1, is not transparent
HasTrail(calls) ==
  LET stops == StopsOf(calls)
  IN  Len(stops) = 4 /\ stops[4][2].alpha # Num(0)

\* a step that issues a draw: construction, a tick or a public draw() (whose
\* frame is tested before its renderer calls)
DrawStep ==
  \/ pc = "new" /\ pc' = "ready"
  \/ TickStep
  \/ UNCHANGED <<animationStep, canvas, distribution, timers>> /\ draw

\* firstIteration as the draw of a DrawStep reads it: onInit assigns it
\* before its draw, the timer callback clears it after its draw
FirstAtDraw == IF pc = "new" THEN firstIteration' ELSE firstIteration

IsPathCall(c) == c.op \in {"moveTo", "lineTo"}

\* the moveTo / lineTo calls of a draw, in order
PathOf(calls) == SelectSeq(calls, IsPathCall)

\* C13: every draw, whatever the cursor, first clears the whole surface,
\* then issues moveTo for index 0 and lineTo for the indices 1 .. L-1 in
\* increasing order, then one stroke; index i goes to the point
\* (distribution*i, H/2 - (H/2)*sample[i]) for the distribution and the
\* height H the draw read, so a sample 1 goes to y = 0, a sample -1 to
\* y = H and a sample 0 to y = H/2.
C13_DrawPath ==
  pc = "ready" =>
    LET calls == lastDraw
        path == PathOf(calls)
        H == drawSeen.canvas.height
        dist == drawSeen.distribution
    IN  /\ calls[1] = Call("clearRect",
                           <<Num(0), Num(0), drawSeen.canvas.width, Num(H)>>)
        /\ Cardinality(CallsOf(calls, "clearRect")) = 1
        /\ calls[Len(calls)] = Call("stroke", <<>>)
        /\ Cardinality(CallsOf(calls, "stroke")) = 1
        /\ Len(path) = L
        /\ \A i \in 1 .. Len(path) :
             /\ path[i].op = IF i = 1 THEN "moveTo" ELSE "lineTo"
             /\ calls[Len(calls) - 1 - Len(path) + i] = path[i]
             /\ path[i].args[1] = Frac(dist.num * (i - 1), dist.den)
             /\ path[i].args[2] = Frac(H - H * markup[i], 2)
             /\ markup[i] = 1 => path[i].args[2] = Num(0)
             /\ markup[i] = -1 => path[i].args[2] = Num(H)
             /\ markup[i] = 0 => path[i].args[2] = Frac(H, 2)

C13_Witness ==
  /\ pc = "ready"
  /\ config.animated
  /\ markup = <<0, 1, -1, 0>>
  /\ animationStep = 2
  /\ drawSeen = Seen(Frac(5, 2), [width |-> Frac(15, 2), height |-> 150],
                     2, TRUE)
  /\ PathOf(lastDraw) =
       <<Call("moveTo", <<Num(0), Num(75)>>),
         Call("lineTo", <<Frac(5, 2), Num(0)>>),
         Call("lineTo", <<Num(5), Num(150)>>),
         Call("lineTo", <<Frac(15, 2), Num(75)>>)>>

(***************************************************************************)
(* Properties of construction (checked under SpecConstruct).               *)
(***************************************************************************)
\* C14 (as claimed): a widget with an empty markup is never constructed:
\* onInit does not complete, no timer is registered and no draw is
\* performed.
C14_EmptyMarkupRejected ==
  config.markup = <<>> =>
    (pc = "new" /\ timers = {} /\ nextHandle = 1 /\ drawCount = 0)

\* C18: onInit builds a sample sequence on out-of-range counts, where
\* construction then completes.  With a negative
\* interval the built sequence has no padding at all: it is the markup once,
\* or repeat copies of it back to back when repeat > 1.  With repeat <= 0 it
\* is surround(markup, interval): the markup once, between interval zeros on
\* each side (none when the interval is negative too).
C18_OutOfRangeCounts ==
  /\ pc = "new" => Built(config) \in Seq(Samples)
  /\ (pc = "ready" /\ config.interval < 0) =>
       IsPaddedCopies(markup, config.markup,
                      IF config.repeat > 1 THEN config.repeat ELSE 1, 0)
  /\ (pc = "ready" /\ config.repeat <= 0) =>
       /\ markup = surround(config.markup, config.interval)
       /\ IsPaddedCopies(markup, config.markup, 1,
                         IF config.interval < 0 THEN 0 ELSE config.interval)

\* constructed with interval = -2 and repeat = 0: the markup as it is
C18_Witness ==
  /\ pc = "ready"
  /\ config.interval = -2
  /\ config.repeat = 0
  /\ config.markup = <<1, -1>>
  /\ markup = <<1, -1>>
  /\ canvas.width = Frac(5, 2)
  /\ drawCount = 1

(***************************************************************************)
(* Properties of the timer handle and of draw (checked under Spec).        *)
(***************************************************************************)
\* C15 (as claimed): after construction and any startAnimation and
\* pauseAnimation calls at most one timer is registered for the widget, and
\* this.animation is its handle.
C15_SingleTimer ==
  pc = "ready" =>
    /\ Cardinality(timers) <= 1
    /\ timers # {} => timers = {animation}

\* a step of pauseAnimation or startAnimation, told by what it does to the
\* host's timers and to this.animation
AnimationCallStep ==
  /\ pc = "ready"
  /\ \/ timers' # timers
     \/ animation' # animation
     \/ lastAnimCall' # lastAnimCall

\* C16: pauseAnimation and startAnimation leave animationStep,
\* firstIteration, the sample sequence and distribution unchanged, and the
\* tick that follows a startAnimation moves the cursor on from the value it
\* finds (the one the widget was paused at), to 0 only from L - 1, and does
\* not set firstIteration again.
C16_PauseStartKeepCursor ==
  /\ [][AnimationCallStep =>
          UNCHANGED <<animationStep, firstIteration, markup, distribution>>]_vars
  /\ [][(TickStep /\ lastAnimCall = "start") =>
          /\ animationStep' = (animationStep + 1) % L
          /\ firstIteration' => firstIteration]_vars

\* paused and started again (handle 1 cleared, handle 2 registered) in the
\* middle of the first pass, which the ticks then go on with
C16_Witness ==
  /\ config.animated
  /\ timers = {2}
  /\ animation = 2
  /\ lastAnimCall = "start"
  /\ ticks = 3
  /\ animationStep = 3
  /\ firstIteration

\* a step of the public draw(): a draw that is neither the one of onInit nor
\* the one of a tick
PublicDrawStep ==
  /\ pc = "ready"
  /\ ticks' = ticks
  /\ \/ drawCount' # drawCount
     \/ drawSeen' # drawSeen
     \/ lastDraw' # lastDraw
  /\ ~TickStep

\* C17: draw changes none of the sample sequence, animationStep,
\* firstIteration, distribution, the canvas size and the registered timers,
\* and a draw that finds the widget as the previous draw saw it issues the
\* same renderer calls again.
C17_DrawReadOnly ==
  /\ [][PublicDrawStep =>
          UNCHANGED <<markup, animationStep, firstIteration, distribution,
                      canvas, timers, animation>>]_vars
  /\ [][(/\ drawSeen = Seen(distribution, canvas, animationStep,
                            firstIteration)
          /\ PublicDrawStep) =>
          /\ lastDraw' = lastDraw
          /\ drawSeen' = drawSeen]_vars

\* a static widget that was drawn again right after construction
C17_Witness ==
  /\ pc = "ready"
  /\ ~config.animated
  /\ timers = {}
  /\ nextHandle = 1
  /\ ticks = 0
  /\ drawCount = 2
  /\ canvas = [width |-> FracMul(Num(L - 1), Frac(5, 2)),
               height |-> IF config.height # <<>> THEN config.height[1]
                          ELSE 150]
  /\ drawSeen = Seen(distribution, canvas, animationStep, firstIteration)
  /\ lastDraw = DrawCalls(markup, distribution, canvas, config,
                          animationStep, firstIteration)

\* a / b is a number x with 0 <= x < 1
InUnitInterval(x) == x.den > 0 /\ 0 <= x.num /\ x.num < x.den

\* C19: every draw of an animated widget adds four colour stops at the
\* offsets 0, progress, progress, 1 in this order, where progress is
\* animationStep / L as the draw read it and 0 <= progress < 1; the alpha
\* of the trail, 1 - progress, is then in (0, 1].
C19_ProgressBelowOne ==
  (pc = "ready" /\ config.animated) =>
    LET stops == StopsOf(lastDraw)
        progress == Frac(drawSeen.animationStep, L)
        alpha == FracSub(Num(1), progress)
    IN  /\ InUnitInterval(progress)
        /\ Len(stops) = 4
        /\ stops[1][1] = Num(0)
        /\ stops[2][1] = progress
        /\ stops[3][1] = progress
        /\ stops[4][1] = Num(1)
        /\ alpha.den > 0 /\ 0 < alpha.num /\ alpha.num <= alpha.den
        /\ HasTrail(lastDraw) => stops[4][2].alpha = alpha

\* the draw of the last sample of a pass of a trailed widget: progress is
\* 4/5 and the trail ends at alpha 1/5
C19_Witness ==
  /\ config.animated
  /\ config.trailed
  /\ L = 5
  /\ ~firstIteration
  /\ ticks >= 6
  /\ drawSeen.animationStep = 4
  /\ StopsOf(lastDraw) = <<<<Num(0), Rgba(Num(0))>>,
                            <<Frac(4, 5), Rgba(Num(1))>>,
                            <<Frac(4, 5), Rgba(Num(0))>>,
                            <<Num(1), Rgba(Frac(1, 5))>>>>

(***************************************************************************)
(* Progress of the animation (checked under SpecRun).                      *)
(***************************************************************************)
\* no timer is registered (yet)
Idle == pc = "new" \/ timers = {}

\* C20: while a timer is registered and never paused, every tick moves the
\* cursor to the next index, to 0 after L - 1, and draws it once; the cursor
\* is at 0 and at L - 1 again and again, so that on its way it takes every
\* value of 0 .. L-1 again and again, in cyclic order.
C20_CursorCycles ==
  /\ [][TickStep =>
          /\ animationStep' = (animationStep + 1) % L
          /\ drawSeen'.animationStep = animationStep'
          /\ lastDraw' = DrawCalls(markup, distribution, canvas, config,
                                   animationStep', firstIteration)
          /\ drawCount < MaxDraws => drawCount' = drawCount + 1]_vars
  /\ []<>(Idle \/ animationStep = 0)
  /\ []<>(Idle \/ animationStep = L - 1)

\* a second pass of the cursor, the tenth tick having drawn index 3
C20_Witness ==
  /\ timers # {}
  /\ L = 6
  /\ ticks = 10
  /\ animationStep = 3
  /\ drawSeen.animationStep = 3
  /\ ~firstIteration

====
